---- MODULE Spec2Model ----
(***************************************************************************)
(* Model of src/app.py: the POST /daily_digest handler and the helpers it  *)
(* calls (get_last_month_youtube_podcasts, download_audio,                 *)
(* transcribe_audio, summarize_text).                                      *)
(*                                                                         *)
(* One request is followed from the moment Flask hands it to daily_digest  *)
(* until the handler returns.  The external collaborators (request parser, *)
(* search provider, yt-dlp, speech-to-text, text generation) are inputs:   *)
(* every outcome they can produce is chosen with \E.                       *)
(*                                                                         *)
(* JSON values are encoded as records [t, s]: t is the JSON type and s the *)
(* content as a sequence of strings (a string is a one-element sequence).  *)
(***************************************************************************)
EXTENDS Integers, Sequences, FiniteSets, TLC

VARIABLES
    OPENAI_API_KEY,    \* line 14: whether the credential is configured
    YOUTUBE_API_KEY,   \* line 15
    data,              \* line 217: what request.get_json() yields
    category,          \* line 222
    companies_list,    \* lines 223-231
    search_keywords,   \* line 237
    podcasts,          \* line 241
    i,                 \* line 250: number of candidates the loop has taken
    processed_count,   \* line 247
    summaries,         \* line 246
    stage,             \* per candidate: position in the per-item pipeline
    disk,              \* scratch files present: candidate index -> byte size
    transcription,     \* line 260
    stt_calls,         \* candidates handed to client.audio.transcriptions
    gen_calls,         \* candidates handed to client.chat.completions
    failed_at,         \* per attempted candidate: the stage that raised
    response,          \* what the handler returned
    pc                 \* position of the handler

vars == <<OPENAI_API_KEY, YOUTUBE_API_KEY, data, category, companies_list,
          search_keywords, podcasts, i, processed_count, summaries, stage,
          disk, transcription, stt_calls, gen_calls, failed_at, response, pc>>

-----------------------------------------------------------------------------
(* Program constants                                                       *)

max_videos_to_process == 3

max_results == 5

MIN_SIZE == 1000

MAX_SIZE == 25 * 1024 * 1024

MIN_TRANSCRIPT == 50

JStr(x) == [t |-> "str", s |-> <<x>>]

JList(xs) == [t |-> "list", s |-> xs]

JNum(x) == [t |-> "num", s |-> <<x>>]

JNull == [t |-> "null", s |-> <<>>]

Missing == [t |-> "missing", s |-> <<>>]

TOP_PLAYERS == JList(<<"Maersk", "CMA CGM", "Hapag-Lloyd", "MSC", "ONE">>)

DEFAULT_CATEGORY == JStr("shipping industry")

-----------------------------------------------------------------------------
(* Inputs                                                                  *)

\* Values sent under the key `company`.
CompanyValues ==
    { Missing, JNull, JStr(""), JStr("Cosco"), JList(<<>>),
      JList(<<"Cosco", "PIL">>), JNum("5") }

\* Values sent under the key `companies`.
CompaniesValues ==
    { Missing, JStr("Evergreen"), JList(<<>>), JList(<<"Evergreen">>),
      JNum("5") }

CategoryValues == { Missing, JStr("ports") }

Body(t, s, cat, one, many) ==
    [t |-> t, s |-> s, category |-> cat, company |-> one, companies |-> many]

\* What request.get_json() can produce: an exception (unparsable body), None,
\* a JSON array, or a JSON object with any of the three keys.
Bodies ==
    { Body("raises", <<>>, Missing, Missing, Missing),
      Body("null", <<>>, Missing, Missing, Missing),
      Body("list", <<"x">>, Missing, Missing, Missing) }
    \cup { Body("dict", <<>>, c, one, many) :
             c \in CategoryValues, one \in CompanyValues,
             many \in CompaniesValues }

\* Byte sizes of a downloaded file: both thresholds and their neighbours.
Sizes == { MIN_SIZE - 1, MIN_SIZE, MAX_SIZE, MAX_SIZE + 1 }

\* Transcripts by length and by length after strip().
Transcripts ==
    { [len |-> 0, stripped |-> 0],
      [len |-> MIN_TRANSCRIPT - 1, stripped |-> MIN_TRANSCRIPT - 1],
      [len |-> MIN_TRANSCRIPT, stripped |-> MIN_TRANSCRIPT],
      [len |-> MIN_TRANSCRIPT + 2, stripped |-> MIN_TRANSCRIPT - 1] }

NoText == [len |-> -1, stripped |-> -1]

NoResponse == [status |-> 0, kind |-> "none", body |-> <<>>, error |-> ""]

-----------------------------------------------------------------------------
(* Python truthiness and dict.get                                          *)

Truthy(v) ==
    CASE v.t = "str"  -> v.s[1] # ""
      [] v.t = "list" -> v.s # <<>>
      [] v.t = "num"  -> v.s[1] # "0"
      [] v.t = "dict" -> \/ v.category # Missing
                         \/ v.company # Missing
                         \/ v.companies # Missing
      [] OTHER        -> FALSE

Get(value, default) == IF value = Missing THEN default ELSE value

-----------------------------------------------------------------------------
(* Request validation, lines 222-237                                       *)

\* lines 223-231: the entity list the handler settles on.
ResolveCompanies(d) ==
    LET first  == Get(d.company, TOP_PLAYERS)
        second == IF ~Truthy(first) THEN Get(d.companies, TOP_PLAYERS)
                  ELSE first
    IN  IF second.t = "str" THEN JList(second.s) ELSE second

\* line 233, negated.
ValidCompanies(v) == v.t = "list" /\ v.s # <<>>

RECURSIVE OrJoin(_)
\* line 237: " OR ".join([f'"{company}"' for company in companies_list])
OrJoin(xs) ==
    IF xs = <<>> THEN ""
    ELSE IF Len(xs) = 1 THEN "\"" \o xs[1] \o "\""
    ELSE "\"" \o xs[1] \o "\"" \o " OR " \o OrJoin(Tail(xs))

\* line 237
BuildSearchKeywords(cat, list) ==
    cat.s[1] \o " podcast OR interview OR news " \o OrJoin(list.s)

BadRequest(msg) ==
    [status |-> 400, kind |-> "object", body |-> <<>>, error |-> msg]

\* jsonify(<list>): status 200 and a JSON array.
JsonArray(entries) ==
    [status |-> 200, kind |-> "array", body |-> entries, error |-> ""]

-----------------------------------------------------------------------------
(* Per-item helpers                                                        *)

\* lines 70-75: the k-th candidate of the result list.
Podcast(k) ==
    [title |-> k, channel |-> k, published_at |-> k, video_url |-> k]

\* f"{file_size/1024/1024:.1f}"
FormatMB(size) ==
    LET tenths == (size * 10 + 524288) \div 1048576
    IN  ToString(tenths \div 10) \o "." \o ToString(tenths % 10)

TooSmallMsg == "Audio file too small - likely corrupted"

TooLargeMsg(size) == "File too large: " \o FormatMB(size) \o "MB (max 25MB)"

NoKeyMsg == "OpenAI API key not available"

NotFoundMsg == "Downloaded file not found"

DownloadErrorMsg == "yt-dlp: unable to download"

SttErrorMsg == "speech-to-text request failed"

GenErrorMsg == "text generation request failed"

ShortPlaceholder == "Transcript too short to generate meaningful summary"

EmptyPlaceholder == "Summary could not be generated - empty response"

NoKeySummary == "OpenAI API key not available for summarization"

GeneratedText == "generated summary"

\* The size gate with both comparisons made inclusive.
SizeGateInclusive(file_size) ==
    IF file_size <= MIN_SIZE THEN "too_small"
    ELSE IF file_size >= MAX_SIZE THEN "too_large"
    ELSE "ok"

\* lines 129-132: the verdict of the size gate on a file of file_size bytes.
SizeGate(file_size) ==
    IF file_size < MIN_SIZE THEN "too_small"
    ELSE IF file_size > MAX_SIZE THEN "too_large"
    ELSE "ok"

\* The length test one character too lenient.
TooShortOffByOne(text) ==
    text.len = 0 \/ text.stripped < MIN_TRANSCRIPT - 1

\* line 166: not text or len(text.strip()) < 50
TooShort(text) == text.len = 0 \/ text.stripped < MIN_TRANSCRIPT

\* The truncation of lines 170-172 changes only the prompt sent to the
\* collaborator, not the summary returned, and is left out.
\* lines 161-209: text is the transcript, gen the outcome the generation
\* collaborator would have.  called tells whether the collaborator is used.
summarize_text(key, text, gen) ==
    IF ~key
    THEN [summary |-> NoKeySummary, called |-> FALSE, raised |-> FALSE]
    ELSE IF TooShort(text)
    THEN [summary |-> ShortPlaceholder, called |-> FALSE, raised |-> FALSE]
    ELSE IF gen = "error"
    THEN [summary |-> "Summary generation failed: " \o GenErrorMsg,
          called |-> TRUE, raised |-> TRUE]
    ELSE IF gen = "empty"
    THEN [summary |-> EmptyPlaceholder, called |-> TRUE, raised |-> FALSE]
    ELSE [summary |-> GeneratedText, called |-> TRUE, raised |-> FALSE]

\* lines 267-274
SuccessEntry(podcast, summary, text) ==
    [title |-> podcast.title, channel |-> podcast.channel,
     published_at |-> podcast.published_at, video_url |-> podcast.video_url,
     summary |-> summary, transcript_length |-> text.len]

\* The failure entry without its error field.
FailureEntryNoError(podcast, error_msg) ==
    [title |-> podcast.title, channel |-> podcast.channel,
     published_at |-> podcast.published_at, video_url |-> podcast.video_url,
     summary |-> "Processing failed: " \o error_msg]

\* lines 283-290
FailureEntry(podcast, error_msg) ==
    [title |-> podcast.title, channel |-> podcast.channel,
     published_at |-> podcast.published_at, video_url |-> podcast.video_url,
     summary |-> "Processing failed: " \o error_msg, error |-> error_msg]

\* The entry put at the front instead of the end.
CollectFront(entries, entry) == <<entry>> \o entries

\* lines 267 and 283: summaries.append(entry)
Collect(entries, entry) == Append(entries, entry)

\* The cap test with > for >=.
CapReachedOffByOne(count) == count > max_videos_to_process

\* line 251
CapReached(count) == count >= max_videos_to_process

\* The order of the calls with the checks before transcription left out.
NextStageSkipsGate(s) ==
    CASE s = "Pending"      -> "Downloading"
      [] s = "Downloading"  -> "Transcribing"
      [] s = "Transcribing" -> "Summarizing"
      [] OTHER              -> "Done"

\* lines 255-267: the stage a candidate enters when its current stage
\* succeeds (the order of the calls in the try block).
NextStage(s) ==
    CASE s = "Pending"      -> "Downloading"
      [] s = "Downloading"  -> "SizeChecking"
      [] s = "SizeChecking" -> "Transcribing"
      [] s = "Transcribing" -> "Summarizing"
      [] OTHER              -> "Done"

\* lines 154-156: os.remove(file_path) when the file exists.  The file system
\* is taken to honour the removal (the except of lines 158-159 is not taken).
RemoveFile(files, k) == [j \in DOMAIN files \ {k} |-> files[j]]

-----------------------------------------------------------------------------
(* Initial state: a request has arrived, nothing has been done with it.    *)

Init ==
    /\ OPENAI_API_KEY \in BOOLEAN
    /\ YOUTUBE_API_KEY \in BOOLEAN
    /\ data \in Bodies
    /\ category = Missing
    /\ companies_list = Missing
    /\ search_keywords = ""
    /\ podcasts = <<>>
    /\ i = 0
    /\ processed_count = 0
    /\ summaries = <<>>
    /\ stage = <<>>
    /\ disk = <<>>
    /\ transcription = NoText
    /\ stt_calls = {}
    /\ gen_calls = {}
    /\ failed_at = <<>>
    /\ response = NoResponse
    /\ pc = "start"

pipeline_vars ==
    <<podcasts, i, processed_count, summaries, stage, disk, transcription,
      stt_calls, gen_calls, failed_at>>

request_vars == <<data, category, companies_list, search_keywords>>

keys == <<OPENAI_API_KEY, YOUTUBE_API_KEY>>

\* The handler returns r.
Return(r) == response' = r /\ pc' = "done"

-----------------------------------------------------------------------------
(* lines 216-238: parse and validate the request, build the search string  *)

Receive ==
    /\ pc = "start"
    /\ UNCHANGED <<keys, data, pipeline_vars>>
    /\ IF data.t = "raises"
       THEN \* get_json() raises; caught at line 298
            /\ Return(JsonArray(<<>>))
            /\ UNCHANGED <<category, companies_list, search_keywords>>
       ELSE IF ~Truthy(data)
       THEN \* line 219
            /\ Return(BadRequest("Missing JSON body"))
            /\ UNCHANGED <<category, companies_list, search_keywords>>
       ELSE IF data.t # "dict"
       THEN \* line 222: data.get raises AttributeError; caught at line 298
            /\ Return(JsonArray(<<>>))
            /\ UNCHANGED <<category, companies_list, search_keywords>>
       ELSE /\ category' = Get(data.category, DEFAULT_CATEGORY)
            /\ companies_list' = ResolveCompanies(data)
            /\ IF ValidCompanies(companies_list')
               THEN /\ search_keywords' =
                           BuildSearchKeywords(category', companies_list')
                    /\ pc' = "retrieve"
                    /\ UNCHANGED response
               ELSE \* line 234
                    /\ Return(BadRequest(
                         "company/companies must be a non-empty list or string"))
                    /\ UNCHANGED search_keywords

-----------------------------------------------------------------------------
(* lines 241-248 with 42-82: fetch the candidates                          *)
(* The request's locals are not read after line 241; the model lets go of  *)
(* them there.                                                             *)

Retrieve ==
    /\ pc = "retrieve"
    /\ IF ~YOUTUBE_API_KEY
       THEN podcasts' = <<>>                                 \* lines 44-46
       ELSE \/ podcasts' = <<>>                              \* lines 80-82
            \/ \E found \in 0 .. max_results :                \* lines 64-78
                 podcasts' = [k \in 1 .. found |-> Podcast(k)]
    /\ stage' = [k \in 1 .. Len(podcasts') |-> "Pending"]
    /\ data' = Missing
    /\ category' = Missing
    /\ companies_list' = Missing
    /\ search_keywords' = ""
    /\ IF podcasts' = <<>>
       THEN Return(JsonArray(<<>>))    \* line 244
       ELSE pc' = "loop" /\ UNCHANGED response
    /\ UNCHANGED <<keys, i, processed_count, summaries, disk, transcription,
                   stt_calls, gen_calls, failed_at>>

-----------------------------------------------------------------------------
(* lines 250-290: the per-item loop                                        *)

\* line 250-255: take the next candidate.
StartItem ==
    /\ pc = "loop"
    /\ i < Len(podcasts)
    /\ ~CapReached(processed_count)
    /\ i' = i + 1
    /\ stage' = [stage EXCEPT ![i + 1] = NextStage(@)]
    /\ pc' = "item"
    /\ UNCHANGED <<keys, request_vars, podcasts, processed_count, summaries,
                   disk, transcription, stt_calls, gen_calls, failed_at,
                   response>>

\* lines 279-290: the except branch of the current item.
Fail(at, error_msg) ==
    /\ summaries' = Collect(summaries, FailureEntry(podcasts[i], error_msg))
    /\ failed_at' = Append(failed_at, at)
    /\ stage' = [stage EXCEPT ![i] = "Done"]
    /\ transcription' = NoText
    /\ pc' = "loop"
    /\ UNCHANGED <<processed_count, gen_calls>>

\* lines 84-118: download_audio.  Either a file of some size is on disk and its
\* name is returned, or yt-dlp raises, or no file is found (line 114); file
\* names are unique per attempt (line 86), so the candidate index names the file.
Download ==
    /\ pc = "item"
    /\ stage[i] = "Downloading"
    /\ \/ \E size \in Sizes :
            /\ disk' = (i :> size) @@ disk
            /\ stage' = [stage EXCEPT ![i] = NextStage(@)]
            /\ UNCHANGED <<summaries, failed_at, transcription, pc,
                           processed_count, gen_calls>>
       \/ \E msg \in {DownloadErrorMsg, NotFoundMsg} :
            /\ Fail("download", msg)
            /\ UNCHANGED disk
    /\ UNCHANGED <<keys, request_vars, podcasts, i, stt_calls, response>>

\* lines 122-132: the checks of transcribe_audio that precede the try block.
SizeCheck ==
    /\ pc = "item"
    /\ stage[i] = "SizeChecking"
    /\ IF ~OPENAI_API_KEY
       THEN Fail("credential", NoKeyMsg)
       ELSE IF i \notin DOMAIN disk
       THEN Fail("missing_file", "Audio file not found")
       ELSE IF SizeGate(disk[i]) = "too_small"
       THEN Fail("size", TooSmallMsg)
       ELSE IF SizeGate(disk[i]) = "too_large"
       THEN Fail("size", TooLargeMsg(disk[i]))
       ELSE /\ stage' = [stage EXCEPT ![i] = NextStage(@)]
            /\ UNCHANGED <<summaries, failed_at, transcription, pc,
                           processed_count, gen_calls>>
    /\ UNCHANGED <<keys, request_vars, podcasts, i, disk, stt_calls, response>>

\* lines 134-159: the speech-to-text call and the finally block.
Transcribe ==
    /\ pc = "item"
    /\ stage[i] = "Transcribing"
    /\ stt_calls' = stt_calls \cup {i}
    /\ disk' = RemoveFile(disk, i)
    /\ \/ \E text \in Transcripts :
            /\ transcription' = text
            /\ stage' = [stage EXCEPT ![i] = NextStage(@)]
            /\ UNCHANGED <<summaries, failed_at, pc, processed_count,
                           gen_calls>>
       \/ Fail("transcribe", SttErrorMsg)
    /\ UNCHANGED <<keys, request_vars, podcasts, i, response>>

\* lines 265-277: summarize_text, the success entry and the counter.
Summarize ==
    /\ pc = "item"
    /\ stage[i] = "Summarizing"
    /\ \E gen \in {"text", "empty", "error"} :
         LET r == summarize_text(OPENAI_API_KEY, transcription, gen)
         IN  /\ summaries' = Collect(summaries,
                   SuccessEntry(podcasts[i], r.summary, transcription))
             /\ gen_calls' = IF r.called THEN gen_calls \cup {i} ELSE gen_calls
             /\ failed_at' = Append(failed_at,
                                    IF r.raised THEN "summarize" ELSE "none")
    /\ processed_count' = processed_count + 1
    /\ stage' = [stage EXCEPT ![i] = NextStage(@)]
    /\ transcription' = NoText
    /\ pc' = "loop"
    /\ UNCHANGED <<keys, request_vars, podcasts, i, disk, stt_calls, response>>

\* lines 251-253 and 292-296: leave the loop and answer.
Respond ==
    /\ pc = "loop"
    /\ i >= Len(podcasts) \/ CapReached(processed_count)
    /\ Return(JsonArray(summaries))
    /\ UNCHANGED <<keys, request_vars, pipeline_vars>>

Next ==
    \/ Receive
    \/ Retrieve
    \/ StartItem
    \/ Download
    \/ SizeCheck
    \/ Transcribe
    \/ Summarize
    \/ Respond

Spec == Init /\ [][Next]_vars

-----------------------------------------------------------------------------
(* Vocabulary of the properties                                            *)

HasError(e) == "error" \in DOMAIN e

\* Indices of the entries that carry no error field.
SuccessIndices(entries) == { k \in 1 .. Len(entries) : ~HasError(entries[k]) }

\* The handler answered after running the per-item loop.
LoopAnswered == pc = "done" /\ podcasts # <<>>

\* Candidates whose processing has been started and has completed.
Completed == IF pc = "item" THEN i - 1 ELSE i

\* The messages an exception of each stage carries.
StageMessages(at) ==
    CASE at = "download"     -> {DownloadErrorMsg, NotFoundMsg}
      [] at = "credential"   -> {NoKeyMsg}
      [] at = "missing_file" -> {"Audio file not found"}
      [] at = "size"         -> {TooSmallMsg} \cup {TooLargeMsg(z) : z \in Sizes}
      [] at = "transcribe"   -> {SttErrorMsg}
      [] OTHER               -> {}

\* The entity list as the interface description resolves it: `company` when
\* it has a non-empty value, else `companies` when the body has it, else the
\* preset; a single string becomes a one-element list.
DocumentedCompanies(d) ==
    LET chosen == IF d.company # Missing /\ Truthy(d.company) THEN d.company
                  ELSE IF d.companies # Missing THEN d.companies
                  ELSE TOP_PLAYERS
    IN  IF chosen.t = "str" THEN JList(chosen.s) ELSE chosen

\* No body reached the handler.
BodyAbsent(d) == d.t \in {"null", "raises"}

StageOrder ==
    <<"Pending", "Downloading", "SizeChecking", "Transcribing", "Summarizing",
      "Done">>

Rank(s) == CHOOSE r \in 1 .. Len(StageOrder) : StageOrder[r] = s

-----------------------------------------------------------------------------
(* Properties                                                              *)

\* C1: every candidate whose processing was started and has completed has
\* exactly one entry, and the entries stand in the order of the attempts; the
\* response of the loop is that sequence.
C1_OneEntryPerAttempt ==
    /\ Len(summaries) = Completed
    /\ \A k \in 1 .. Completed :
         /\ summaries[k].video_url = podcasts[k].video_url
         /\ summaries[k].title = podcasts[k].title
         /\ Cardinality({ j \in 1 .. Len(summaries) :
                summaries[j].video_url = podcasts[k].video_url }) = 1
    /\ LoopAnswered => response.body = summaries /\ Len(response.body) = i

\* Five candidates attempted, failures and successes mixed, all answered.
C1_Witness ==
    /\ LoopAnswered
    /\ Len(response.body) = 5
    /\ \E k \in 1 .. 5 : HasError(response.body[k])
    /\ \E k \in 1 .. 5 : ~HasError(response.body[k])

\* C2: when an item's processing is complete, no audio file is left on disk.
C2_NoResidualFile == pc \in {"loop", "done"} => DOMAIN disk = {}

C4_AtMostCapEntries == LoopAnswered => Len(response.body) <= i /\ i <= 3

\* C5 as stated: a failure of any of the four stages gives an entry with an
\* error field and the summary "Processing failed: <message>"; an entry
\* without error field means no stage failed.
C5_AnyStageFailureIsErrorEntry ==
    \A k \in 1 .. Len(summaries) :
        /\ failed_at[k] # "none" =>
             /\ HasError(summaries[k])
             /\ summaries[k].summary = "Processing failed: " \o summaries[k].error
        /\ ~HasError(summaries[k]) => failed_at[k] = "none"

\* C5 amended: a failure of download, credential check, size gate or
\* transcription gives the error entry with the message raised; a failure of
\* the generation call gives an entry without error field whose summary is
\* "Summary generation failed: <message>"; no failure ends the loop's answer.
C5_FailureEntries ==
    /\ Len(failed_at) = Len(summaries)
    /\ \A k \in 1 .. Len(summaries) :
         LET e == summaries[k]
             at == failed_at[k]
         IN  /\ at \notin {"none", "summarize"} =>
                  /\ HasError(e)
                  /\ e.error \in StageMessages(at)
                  /\ e.summary = "Processing failed: " \o e.error
             /\ at = "summarize" =>
                  /\ ~HasError(e)
                  /\ e.summary = "Summary generation failed: " \o GenErrorMsg
             /\ ~HasError(e) => at \in {"none", "summarize"}
    /\ LoopAnswered => response = JsonArray(summaries)

\* A transcription failure and a generation failure in one request.
C5_Witness ==
    /\ LoopAnswered
    /\ \E k \in 1 .. Len(failed_at) : failed_at[k] = "summarize"
    /\ \E k \in 1 .. Len(failed_at) : failed_at[k] = "transcribe"
    /\ \E k \in 1 .. Len(failed_at) : failed_at[k] = "size"

\* C6: status 400 only when no body arrived or the entity value is not a
\* non-empty list; every other answer is status 200 with an array.
C6_BadRequestOnlyForAbsentOrBadList ==
    pc = "done" =>
        /\ response.status = 400 =>
             BodyAbsent(data) \/ ~ValidCompanies(DocumentedCompanies(data))
        /\ response.status # 400 =>
             response.status = 200 /\ response.kind = "array"

\* C7: a transcript shorter than 50 characters gets the fixed placeholder
\* and the generation collaborator is not called for its item.
C7_ShortTranscriptPlaceholder ==
    \A k \in SuccessIndices(summaries) :
        summaries[k].transcript_length < 50 =>
            /\ summaries[k].summary = ShortPlaceholder
            /\ summaries[k].video_url \notin gen_calls

\* A 49-character transcript has been summarized.
C7_Witness ==
    \E k \in SuccessIndices(summaries) : summaries[k].transcript_length = 49

\* C8: at the size gate a file below 1000 bytes is rejected as too small, a
\* file above 25 * 1024 * 1024 bytes is rejected as too large with another
\* message, any size in between goes on to transcription, and the gate never
\* calls the speech-to-text collaborator, which is called only on files the
\* gate accepted.
C8_SizeGate ==
    [][ /\ (pc = "item" /\ stage[i] = "SizeChecking" /\ OPENAI_API_KEY
              /\ i \in DOMAIN disk /\ stage'[i] # stage[i]) =>
             /\ stt_calls' = stt_calls
             /\ disk[i] < 1000 =>
                  /\ stage'[i] = "Done"
                  /\ Len(summaries') = Len(summaries) + 1
                  /\ HasError(summaries'[Len(summaries')])
                  /\ summaries'[Len(summaries')].error = TooSmallMsg
             /\ disk[i] > 25 * 1024 * 1024 =>
                  /\ stage'[i] = "Done"
                  /\ Len(summaries') = Len(summaries) + 1
                  /\ HasError(summaries'[Len(summaries')])
                  /\ summaries'[Len(summaries')].error = TooLargeMsg(disk[i])
                  /\ TooLargeMsg(disk[i]) # TooSmallMsg
             /\ (disk[i] >= 1000 /\ disk[i] <= 25 * 1024 * 1024) =>
                  /\ stage'[i] = "Transcribing"
                  /\ summaries' = summaries
        /\ stt_calls' # stt_calls =>
             /\ stt_calls' = stt_calls \cup {i}
             /\ i \in DOMAIN disk
             /\ disk[i] >= 1000 /\ disk[i] <= 25 * 1024 * 1024
      ]_vars

\* One request saw a too-small and a too-large rejection and an accepted file.
C8_Witness ==
    /\ \E k \in 1 .. Len(summaries) :
         HasError(summaries[k]) /\ summaries[k].error = TooSmallMsg
    /\ \E k \in 1 .. Len(summaries) :
         HasError(summaries[k])
           /\ summaries[k].error = TooLargeMsg(25 * 1024 * 1024 + 1)
    /\ stt_calls # {}

\* The candidates are worked one at a time, in order.
OneAtATime ==
    \A k \in DOMAIN stage :
        /\ stage[k] \notin {"Pending", "Done"} => k = i /\ pc = "item"
        /\ stage[k] # "Pending" => \A j \in 1 .. k - 1 : stage[j] = "Done"

\* A candidate's stage changes only to the next stage or to Done.
StageStep ==
    \A k \in DOMAIN stage :
        stage'[k] # stage[k] =>
            /\ \/ Rank(stage'[k]) = Rank(stage[k]) + 1
               \/ stage'[k] = "Done"
            /\ Rank(stage'[k]) > Rank(stage[k])

\* C9: each item goes through the stages in order, a stage is never entered
\* twice, and an item is not started before the one before it is Done.
C9_StageOrder == []OneAtATime /\ [][StageStep]_vars

\* The second item is being summarized after the first is Done.
C9_Witness ==
    /\ pc = "item"
    /\ i >= 2
    /\ stage[i] = "Summarizing"
    /\ HasError(summaries[1])

\* C10: the entity list is `company` when non-empty, else `companies` when
\* the body has it, else the preset; a string becomes a one-element list.
C10_CompaniesFromBothKeys ==
    companies_list # Missing => companies_list = DocumentedCompanies(data)

====
